---- MODULE Spec2Model ----
(***************************************************************************)
(* The client-side session wrapper of src/src/blockless.rs (BlocklessHttp, *)
(* HttpOptions, HttpErrorKind) over the four host primitives http_open,    *)
(* http_read_header, http_read_body and http_close, and the caller of      *)
(* src/src/main.rs.  The host is the environment: every value it returns   *)
(* (return code, handle, status, byte count, bytes written to the buffer)  *)
(* is a nondeterministic input.                                            *)
(***************************************************************************)
EXTENDS Integers, Sequences, FiniteSets, TLC

VARIABLES
    sess,      \* the BlocklessHttp objects: slot -> [st, inner, code, closes]
    pc,        \* position of the thread inside the library: "idle",
               \* "get_all_body", "get_header" (inside the loop), "panic"
    cur,       \* the call in progress: [s: the slot of self, header: the
               \* header name of get_header]; NoCur when idle
    vec,       \* the accumulator `vec` of the call in progress
    ret,       \* the value the last completed operation returned
    hostCall,  \* the host primitive called by the last step (NoCall if none)
    chunks,    \* history: the slices the host delivered with (0, num > 0)
               \* during the current / most recent streaming call
    mainpc,    \* position inside main(); "off" when the caller is arbitrary
    count      \* history kept by the counting caller: [calls: host read
               \* calls made by the streaming call in progress, retries:
               \* retry sentinels among their answers]

libvars == <<sess, pc, cur, vec, ret, hostCall, chunks>>
vars == <<sess, pc, cur, vec, ret, hostCall, chunks, mainpc, count>>

(***************************************************************************)
(* Program constants.                                                      *)
(***************************************************************************)
\* A u32 host code is kept at its width as two 16-bit limbs [hi, lo], so that
\* u32::MAX (0xFFFF_FFFF) is a value of the model.
U32(hi, lo) == [hi |-> hi, lo |-> lo]
Code(n) == U32(0, n)
U32Max == U32(65535, 65535)
Zero == Code(0)
BufLen == 1024
ConnectTimeout == 30
ReadTimeout == 10

(***************************************************************************)
(* Bounds of the model and the sets the host's answers are drawn from.     *)
(***************************************************************************)
MaxSessions == 2
MaxChunks == 2
MaxRetries == 2
MaxMethodLen == 2

Slots == 1..MaxSessions
Handles == {0, 7}
Statuses == {200, 404}
\* texts are sequences of character codes
GET == <<71, 69, 84>>
\* "GET", and a method made of a quote, a backslash and a line feed
Methods == {GET, <<34, 92, 10>>}
\* codes the host returns from its primitives: success, recognised errors,
\* an unrecognised code and the retry sentinel
HostCodes == {Zero, Code(4), Code(5), Code(255), U32Max}
\* codes handed directly to the conversion
CodeSamples ==
    {Code(n) : n \in 0..15} \cup
    {Code(255), Code(256), U32(1, 0), U32(1, 1), U32(32768, 0),
     U32(65535, 65534), U32Max}
HeaderNames == {"etag", "date"}
\* what the host answers to an open: its code and the handle and status it
\* stores (on a failure it may or may not have stored something)
OpenAnswers ==
    [rs : {Zero}, fd : Handles, status : Statuses] \cup
    [rs : HostCodes \ {Zero}, fd : Handles, status : {200}]
\* what the host answers to a read: its code, the byte count it reports and
\* the bytes it writes at the start of the buffer.  Answers is the set used
\* when several sessions are followed, StreamAnswers the wider set used when
\* one session is followed through its streaming reads.
Answers ==
    [rs : HostCodes, num : {0, 1, BufLen + 1}, data : {<<65>>}]
StreamAnswers ==
    [rs : {Zero, Code(4), Code(255), U32Max},
     num : {0, 1, 2, BufLen + 1},
     data : {<<>>, <<65>>, <<195, 169>>}]

(***************************************************************************)
(* HttpErrorKind and the conversion From<u32>.                             *)
(***************************************************************************)
HttpErrorKind ==
    {"InvalidDriver", "InvalidHandle", "MemoryAccessError", "BufferTooSmall",
     "HeaderNotFound", "Utf8Error", "DestinationNotAllowed", "InvalidMethod",
     "InvalidEncoding", "InvalidUrl", "RequestError", "RuntimeError",
     "TooManySessions", "PermissionDeny"}

\* the conversion matching on the low 16 bits of the code only
HttpErrorKind_from_low16(i) ==
    CASE i.lo = 1 -> "InvalidHandle"
      [] i.lo = 2 -> "MemoryAccessError"
      [] i.lo = 3 -> "BufferTooSmall"
      [] i.lo = 4 -> "HeaderNotFound"
      [] i.lo = 5 -> "Utf8Error"
      [] i.lo = 6 -> "DestinationNotAllowed"
      [] i.lo = 7 -> "InvalidMethod"
      [] i.lo = 8 -> "InvalidEncoding"
      [] i.lo = 9 -> "InvalidUrl"
      [] i.lo = 10 -> "RequestError"
      [] i.lo = 11 -> "RuntimeError"
      [] i.lo = 12 -> "TooManySessions"
      [] i.lo = 13 -> "PermissionDeny"
      [] OTHER -> "RuntimeError"

\* the conversion with the arm of code 5 repeating the kind of code 4
HttpErrorKind_from_repeated_arm(i) ==
    CASE i = Code(1) -> "InvalidHandle"
      [] i = Code(2) -> "MemoryAccessError"
      [] i = Code(3) -> "BufferTooSmall"
      [] i = Code(4) -> "HeaderNotFound"
      [] i = Code(5) -> "HeaderNotFound"
      [] i = Code(6) -> "DestinationNotAllowed"
      [] i = Code(7) -> "InvalidMethod"
      [] i = Code(8) -> "InvalidEncoding"
      [] i = Code(9) -> "InvalidUrl"
      [] i = Code(10) -> "RequestError"
      [] i = Code(11) -> "RuntimeError"
      [] i = Code(12) -> "TooManySessions"
      [] i = Code(13) -> "PermissionDeny"
      [] OTHER -> "RuntimeError"

HttpErrorKind_from(i) ==
    CASE i = Code(1) -> "InvalidHandle"
      [] i = Code(2) -> "MemoryAccessError"
      [] i = Code(3) -> "BufferTooSmall"
      [] i = Code(4) -> "HeaderNotFound"
      [] i = Code(5) -> "Utf8Error"
      [] i = Code(6) -> "DestinationNotAllowed"
      [] i = Code(7) -> "InvalidMethod"
      [] i = Code(8) -> "InvalidEncoding"
      [] i = Code(9) -> "InvalidUrl"
      [] i = Code(10) -> "RequestError"
      [] i = Code(11) -> "RuntimeError"
      [] i = Code(12) -> "TooManySessions"
      [] i = Code(13) -> "PermissionDeny"
      [] OTHER -> "RuntimeError"

(***************************************************************************)
(* HttpOptions: the request descriptor and its JSON value.                 *)
(***************************************************************************)
JNull == [t |-> "null"]
JStr(s) == [t |-> "string", s |-> s]
JNum(n) == [t |-> "number", n |-> n]

\* HttpOptions_new with the two timeouts taken for each other
HttpOptions_new_timeouts_swapped(method, connect_timeout, read_timeout) ==
    [method |-> method, connect_timeout |-> read_timeout,
     read_timeout |-> connect_timeout, body |-> [some |-> FALSE]]

HttpOptions_new(method, connect_timeout, read_timeout) ==
    [method |-> method, connect_timeout |-> connect_timeout,
     read_timeout |-> read_timeout, body |-> [some |-> FALSE]]

HttpOptions_to_json(o) ==
    [method |-> JStr(o.method),
     connectTimeout |-> JNum(o.connect_timeout),
     readTimeout |-> JNum(o.read_timeout),
     headers |-> JStr(<<123, 125>>),
     body |-> IF o.body.some THEN JStr(o.body.v) ELSE JNull]

(***************************************************************************)
(* serde_json: the text of a flat JSON object and the value read back from *)
(* a text.  Texts are sequences of character codes.  The members of an     *)
(* object are written in the order of serde_json's Map, which the build    *)
(* decides: sorted by key (BTreeMap, the default) or in insertion order    *)
(* (IndexMap, feature preserve_order).                                     *)
(***************************************************************************)
KeyText ==
    [method |-> <<109, 101, 116, 104, 111, 100>>,
     connectTimeout |-> <<99, 111, 110, 110, 101, 99, 116, 84, 105, 109, 101,
                          111, 117, 116>>,
     readTimeout |-> <<114, 101, 97, 100, 84, 105, 109, 101, 111, 117, 116>>,
     headers |-> <<104, 101, 97, 100, 101, 114, 115>>,
     body |-> <<98, 111, 100, 121>>]
SortedKeys == <<"body", "connectTimeout", "headers", "method", "readTimeout">>
\* the order of the members in the json! of to_json
InsertedKeys == <<"method", "connectTimeout", "readTimeout", "headers", "body">>
Builds == {"BTreeMap", "IndexMap"}

\* the order in which a Map built by inserting `inserted` writes its members
KeysOf(build, inserted) ==
    IF build = "BTreeMap"
    THEN SelectSeq(SortedKeys,
                   LAMBDA k : \E i \in 1..Len(inserted) : inserted[i] = k)
    ELSE inserted

\* a character written as it is, quotes and backslashes included
EscapeChar_raw(c) == <<c>>

HexDigit(n) == IF n < 10 THEN 48 + n ELSE 87 + n

\* a character of a string as serde_json writes it between the quotes
EscapeChar(c) ==
    CASE c = 34 -> <<92, 34>>
      [] c = 92 -> <<92, 92>>
      [] c = 8 -> <<92, 98>>
      [] c = 9 -> <<92, 116>>
      [] c = 10 -> <<92, 110>>
      [] c = 12 -> <<92, 102>>
      [] c = 13 -> <<92, 114>>
      [] OTHER -> IF c < 32
                  THEN <<92, 117, 48, 48, HexDigit(c \div 16), HexDigit(c % 16)>>
                  ELSE <<c>>

RECURSIVE Escape(_)
Escape(s) == IF s = <<>> THEN <<>> ELSE EscapeChar(Head(s)) \o Escape(Tail(s))

RECURSIVE EncNat(_)
EncNat(n) == IF n < 10 THEN <<48 + n>> ELSE EncNat(n \div 10) \o <<48 + (n % 10)>>

EncValue(v) ==
    CASE v.t = "null" -> <<110, 117, 108, 108>>
      [] v.t = "string" -> <<34>> \o Escape(v.s) \o <<34>>
      [] v.t = "number" -> EncNat(v.n)

RECURSIVE EncMembers(_, _)
EncMembers(obj, keys) ==
    IF keys = <<>> THEN <<>>
    ELSE <<34>> \o Escape(KeyText[Head(keys)]) \o <<34, 58>>
         \o EncValue(obj[Head(keys)])
         \o (IF Len(keys) > 1 THEN <<44>> ELSE <<>>)
         \o EncMembers(obj, Tail(keys))

\* serde_json::to_string of an object whose Map holds `keys` in this order
Value_to_string(obj, keys) == <<123>> \o EncMembers(obj, keys) \o <<125>>

Fail == [ok |-> FALSE]

HexVal(c) ==
    IF c \in 48..57 THEN c - 48
    ELSE IF c \in 97..102 THEN c - 87
    ELSE IF c \in 65..70 THEN c - 55
    ELSE -1

\* the character an escape letter stands for, -1 if it stands for none
Unescape(e) ==
    CASE e = 34 -> 34
      [] e = 92 -> 92
      [] e = 47 -> 47
      [] e = 98 -> 8
      [] e = 116 -> 9
      [] e = 110 -> 10
      [] e = 102 -> 12
      [] e = 114 -> 13
      [] OTHER -> -1

\* the characters of a string from position j to its closing quote
RECURSIVE ScanString(_, _, _)
ScanString(t, j, acc) ==
    IF j > Len(t) THEN Fail
    ELSE IF t[j] = 34 THEN [ok |-> TRUE, v |-> acc, next |-> j + 1]
    ELSE IF t[j] < 32 THEN Fail
    ELSE IF t[j] # 92 THEN ScanString(t, j + 1, Append(acc, t[j]))
    ELSE IF j + 1 > Len(t) THEN Fail
    ELSE IF t[j + 1] = 117
    THEN IF j + 5 > Len(t) \/ \E d \in 2..5 : HexVal(t[j + d]) < 0 THEN Fail
         ELSE LET c == 4096 * HexVal(t[j + 2]) + 256 * HexVal(t[j + 3])
                       + 16 * HexVal(t[j + 4]) + HexVal(t[j + 5])
              IN  IF c < 128 THEN ScanString(t, j + 6, Append(acc, c))
                  ELSE Fail
    ELSE IF Unescape(t[j + 1]) < 0 THEN Fail
    ELSE ScanString(t, j + 2, Append(acc, Unescape(t[j + 1])))

RECURSIVE ScanNumber(_, _, _)
ScanNumber(t, j, n) ==
    IF j <= Len(t) /\ t[j] \in 48..57
    THEN ScanNumber(t, j + 1, (10 * n) + (t[j] - 48))
    ELSE [ok |-> TRUE, v |-> JNum(n), next |-> j]

ParseValue(t, i) ==
    IF i > Len(t) THEN Fail
    ELSE IF t[i] = 34
    THEN LET r == ScanString(t, i + 1, <<>>)
         IN  IF r.ok THEN [ok |-> TRUE, v |-> JStr(r.v), next |-> r.next]
             ELSE Fail
    ELSE IF t[i] = 48 /\ i < Len(t) /\ t[i + 1] \in 48..57 THEN Fail
    ELSE IF t[i] \in 48..57 THEN ScanNumber(t, i, 0)
    ELSE IF i + 3 <= Len(t) /\ SubSeq(t, i, i + 3) = <<110, 117, 108, 108>>
    THEN [ok |-> TRUE, v |-> JNull, next |-> i + 4]
    ELSE Fail

\* the members from position i on, added to obj; keys is the order in which
\* the keys were met
RECURSIVE ParseMembers(_, _, _, _)
ParseMembers(t, i, obj, keys) ==
    IF i > Len(t) \/ t[i] # 34 THEN Fail
    ELSE LET k == ScanString(t, i + 1, <<>>)
         IN  IF ~k.ok THEN Fail
             ELSE IF k.next > Len(t) \/ t[k.next] # 58 THEN Fail
             ELSE IF ~\E name \in DOMAIN KeyText : KeyText[name] = k.v
             THEN Fail
             ELSE LET name == CHOOSE name \in DOMAIN KeyText :
                                  KeyText[name] = k.v
                      val == ParseValue(t, k.next + 1)
                  IN  IF ~val.ok THEN Fail
                      ELSE IF val.next > Len(t) THEN Fail
                      ELSE LET obj2 == [x \in DOMAIN obj \cup {name} |->
                                          IF x = name THEN val.v ELSE obj[x]]
                               keys2 == IF name \in DOMAIN obj THEN keys
                                        ELSE Append(keys, name)
                           IN  IF t[val.next] = 44
                               THEN ParseMembers(t, val.next + 1, obj2, keys2)
                               ELSE IF t[val.next] = 125 /\ val.next = Len(t)
                               THEN [ok |-> TRUE, obj |-> obj2, keys |-> keys2]
                               ELSE Fail

\* serde_json::from_str of the text of a flat object
Value_from_str(t) ==
    IF Len(t) < 2 THEN Fail
    ELSE IF t = <<123, 125>> THEN [ok |-> TRUE, obj |-> <<>>, keys |-> <<>>]
    ELSE IF t[1] # 123 THEN Fail
    ELSE ParseMembers(t, 2, <<>>, <<>>)

\* FetchOptions: one field, written and read by the derived Serialize and
\* Deserialize
FetchOptions_new(method) == [method |-> method]

FetchOptions_to_string(o) ==
    Value_to_string([method |-> JStr(o.method)], <<"method">>)

FetchOptions_from_str(t) ==
    LET r == Value_from_str(t)
    IN  IF ~r.ok THEN Fail
        ELSE IF "method" \notin DOMAIN r.obj THEN Fail
        ELSE IF r.obj["method"].t # "string" THEN Fail
        ELSE [ok |-> TRUE, v |-> FetchOptions_new(r.obj["method"].s)]

\* serde_json::to_string(&http_opts.to_json())
http_opts_str(http_opts, build) ==
    Value_to_string(HttpOptions_to_json(http_opts),
                    KeysOf(build, InsertedKeys))

\* the first two statements of open: the descriptor of the caller's method
\* with the fixed timeouts, and its text, for each method and build
open_http_opts_str ==
    [method \in Methods |->
        [build \in Builds |->
            LET http_opts ==
                    HttpOptions_new(method, ConnectTimeout, ReadTimeout)
            IN  http_opts_str(http_opts, build)]]

(***************************************************************************)
(* The scratch buffer: `[0u8; 1024]`, then the host writes `data` at its   *)
(* start; BufSlice is `&buf[0..num]`, defined only for num <= BufLen.      *)
(***************************************************************************)
BufByte(data, i) == IF i <= Len(data) THEN data[i] ELSE 0

BufSlice(data, num) == [i \in 1..num |-> BufByte(data, i)]

(***************************************************************************)
(* String::from_utf8: whether a byte sequence is well-formed UTF-8.        *)
(***************************************************************************)
IsCont(b) == b >= 128 /\ b <= 191

\* the length of the character a lead byte announces, 0 for a byte that
\* cannot start a character
CharLen(x) ==
    IF x < 128 THEN 1
    ELSE IF x >= 194 /\ x <= 223 THEN 2
    ELSE IF x >= 224 /\ x <= 239 THEN 3
    ELSE IF x >= 240 /\ x <= 244 THEN 4
    ELSE 0

\* the range allowed to the byte that follows lead byte x
SecondOk(x, y) ==
    IF x = 224 THEN y >= 160 /\ y <= 191
    ELSE IF x = 237 THEN y >= 128 /\ y <= 159
    ELSE IF x = 240 THEN y >= 144 /\ y <= 191
    ELSE IF x = 244 THEN y >= 128 /\ y <= 143
    ELSE IsCont(y)

\* position i starts a complete, well-formed character
StartsChar(b, i) ==
    LET k == CharLen(b[i])
    IN  /\ k >= 1
        /\ i + k - 1 <= Len(b)
        /\ k >= 2 => SecondOk(b[i], b[i + 1])
        /\ \A j \in (i + 2)..(i + k - 1) : IsCont(b[j])

\* position i continues the character started at most 3 bytes before it
ContinuesChar(b, i) ==
    \E d \in 1..3 :
        /\ i - d >= 1
        /\ CharLen(b[i - d]) > d
        /\ \A j \in (i - d + 1)..(i - 1) : IsCont(b[j])

\* every byte either starts a well-formed character or continues one
Utf8Valid(b) ==
    \A i \in 1..Len(b) :
        IF IsCont(b[i]) THEN ContinuesChar(b, i) ELSE StartsChar(b, i)

(***************************************************************************)
(* Values of the state.                                                    *)
(***************************************************************************)
NoSession == [st |-> "none", inner |-> 0, code |-> 0, closes |-> 0]
NoCall ==
    [fn |-> "none", handle |-> 0, s |-> 0, rs |-> Zero, num |-> 0,
     header |-> ""]
NoCur == [s |-> 0, header |-> ""]
\* a returned value: the operation, the variant of its result, and the
\* error kind, number or bytes it carries (arg: the argument of a conversion)
Ret(op, tag, kind, n, bytes) ==
    [op |-> op, tag |-> tag, kind |-> kind, n |-> n, bytes |-> bytes,
     arg |-> Zero]
NoRet == Ret("none", "None", "", 0, <<>>)

RetOk(op, n, bytes) == Ret(op, "Ok", "", n, bytes)
RetErr(op, kind) == Ret(op, "Err", kind, 0, <<>>)
RetUnit(op) == Ret(op, "Unit", "", 0, <<>>)
RetPanic(op) == Ret(op, "Panic", "", 0, <<>>)

Live(s) == sess[s].st = "live"
FreeSlots == {s \in Slots : sess[s].st = "none"}
NextSlot == CHOOSE s \in FreeSlots : \A t \in FreeSlots : s <= t

InitLib ==
    /\ sess = [s \in Slots |-> NoSession]
    /\ pc = "idle"
    /\ cur = NoCur
    /\ vec = <<>>
    /\ ret = NoRet
    /\ hostCall = NoCall
    /\ chunks = <<>>

NoCount == [calls |-> 0, retries |-> 0]

Init ==
    /\ InitLib
    /\ mainpc = "off"
    /\ count = NoCount

\* get_all_body_iter with the whole of what the host wrote appended,
\* whatever count it reported
get_all_body_iter_whole_data(v, rs, num, data) ==
    IF rs = U32Max
    THEN [k |-> "continue", vec |-> v, ret |-> NoRet]
    ELSE IF rs # Zero
    THEN [k |-> "return", vec |-> v,
          ret |-> RetErr("get_all_body", HttpErrorKind_from(rs))]
    ELSE IF num > 0
    THEN IF num > BufLen
         THEN [k |-> "panic", vec |-> v, ret |-> RetPanic("get_all_body")]
         ELSE [k |-> "continue", vec |-> v \o data, ret |-> NoRet]
    ELSE [k |-> "return", vec |-> v, ret |-> RetOk("get_all_body", 0, v)]

\* get_all_body_iter returning what was accumulated when the host fails
get_all_body_iter_partial_on_error(v, rs, num, data) ==
    IF rs = U32Max
    THEN [k |-> "continue", vec |-> v, ret |-> NoRet]
    ELSE IF rs # Zero
    THEN [k |-> "return", vec |-> v, ret |-> RetOk("get_all_body", 0, v)]
    ELSE IF num > 0
    THEN IF num > BufLen
         THEN [k |-> "panic", vec |-> v, ret |-> RetPanic("get_all_body")]
         ELSE [k |-> "continue", vec |-> v \o BufSlice(data, num), ret |-> NoRet]
    ELSE [k |-> "return", vec |-> v, ret |-> RetOk("get_all_body", 0, v)]

\* get_all_body_iter going on after a zero-count success
get_all_body_iter_no_break(v, rs, num, data) ==
    IF rs = U32Max
    THEN [k |-> "continue", vec |-> v, ret |-> NoRet]
    ELSE IF rs # Zero
    THEN [k |-> "return", vec |-> v,
          ret |-> RetErr("get_all_body", HttpErrorKind_from(rs))]
    ELSE IF num > BufLen
    THEN [k |-> "panic", vec |-> v, ret |-> RetPanic("get_all_body")]
    ELSE [k |-> "continue", vec |-> v \o BufSlice(data, num), ret |-> NoRet]

\* get_all_body_iter that returns after the first delivered slice instead of
\* asking the host again
get_all_body_iter_single_read(v, rs, num, data) ==
    IF rs = U32Max THEN [k |-> "continue", vec |-> v, ret |-> NoRet]
    ELSE IF rs # Zero
    THEN [k |-> "return", vec |-> v,
          ret |-> RetErr("get_all_body", HttpErrorKind_from(rs))]
    ELSE IF num > 0
    THEN IF num > BufLen
         THEN [k |-> "panic", vec |-> v, ret |-> RetPanic("get_all_body")]
         ELSE [k |-> "return", vec |-> v,
               ret |-> RetOk("get_all_body", 0, v \o BufSlice(data, num))]
    ELSE [k |-> "return", vec |-> v, ret |-> RetOk("get_all_body", 0, v)]

\* get_all_body_iter with the reported count clamped to the buffer length
\* instead of the checked slice
get_all_body_iter_clamped(v, rs, num, data) ==
    IF rs = U32Max THEN [k |-> "continue", vec |-> v, ret |-> NoRet]
    ELSE IF rs # Zero
    THEN [k |-> "return", vec |-> v,
          ret |-> RetErr("get_all_body", HttpErrorKind_from(rs))]
    ELSE IF num > 0
    THEN [k |-> "continue",
          vec |-> v \o BufSlice(data, IF num > BufLen THEN BufLen ELSE num),
          ret |-> NoRet]
    ELSE [k |-> "return", vec |-> v, ret |-> RetOk("get_all_body", 0, v)]

(***************************************************************************)
(* One iteration of the loop of get_all_body, after the host call returned *)
(* (rs, num) and wrote `data` to the buffer: what happens to the           *)
(* accumulator and whether the call goes on, returns or panics.            *)
(***************************************************************************)
get_all_body_iter(v, rs, num, data) ==
    IF rs = U32Max
    THEN [k |-> "continue", vec |-> v, ret |-> NoRet]
    ELSE IF rs # Zero
    THEN [k |-> "return", vec |-> v,
          ret |-> RetErr("get_all_body", HttpErrorKind_from(rs))]
    ELSE IF num > 0
    THEN IF num > BufLen
         THEN [k |-> "panic", vec |-> v, ret |-> RetPanic("get_all_body")]
         ELSE [k |-> "continue", vec |-> v \o BufSlice(data, num), ret |-> NoRet]
    ELSE [k |-> "return", vec |-> v, ret |-> RetOk("get_all_body", 0, v)]

\* get_header_iter without the retry branch: the sentinel is an error code
get_header_iter_no_retry(v, rs, num, data) ==
    IF rs # Zero
    THEN [k |-> "return", vec |-> v,
          ret |-> RetErr("get_header", HttpErrorKind_from(rs))]
    ELSE IF num > 0
    THEN IF num > BufLen
         THEN [k |-> "panic", vec |-> v, ret |-> RetPanic("get_header")]
         ELSE [k |-> "continue", vec |-> v \o BufSlice(data, num), ret |-> NoRet]
    ELSE [k |-> "return", vec |-> v,
          ret |-> IF Utf8Valid(v) THEN RetOk("get_header", 0, v)
                  ELSE RetErr("get_header", "Utf8Error")]

\* get_header_iter with a missing header (code 4) read as an empty value
get_header_iter_missing_is_empty(v, rs, num, data) ==
    IF rs = U32Max THEN [k |-> "continue", vec |-> v, ret |-> NoRet]
    ELSE IF rs = Code(4)
    THEN [k |-> "return", vec |-> v, ret |-> RetOk("get_header", 0, <<>>)]
    ELSE IF rs # Zero
    THEN [k |-> "return", vec |-> v,
          ret |-> RetErr("get_header", HttpErrorKind_from(rs))]
    ELSE IF num > 0
    THEN IF num > BufLen
         THEN [k |-> "panic", vec |-> v, ret |-> RetPanic("get_header")]
         ELSE [k |-> "continue", vec |-> v \o BufSlice(data, num), ret |-> NoRet]
    ELSE [k |-> "return", vec |-> v,
          ret |-> IF Utf8Valid(v) THEN RetOk("get_header", 0, v)
                  ELSE RetErr("get_header", "Utf8Error")]

\* get_header_iter that hands the bytes back without decoding them
get_header_iter_undecoded(v, rs, num, data) ==
    IF rs = U32Max THEN [k |-> "continue", vec |-> v, ret |-> NoRet]
    ELSE IF rs # Zero
    THEN [k |-> "return", vec |-> v,
          ret |-> RetErr("get_header", HttpErrorKind_from(rs))]
    ELSE IF num > 0
    THEN IF num > BufLen
         THEN [k |-> "panic", vec |-> v, ret |-> RetPanic("get_header")]
         ELSE [k |-> "continue", vec |-> v \o BufSlice(data, num), ret |-> NoRet]
    ELSE [k |-> "return", vec |-> v, ret |-> RetOk("get_header", 0, v)]

(***************************************************************************)
(* One iteration of the loop of get_header; leaving the loop decodes the   *)
(* accumulator with String::from_utf8.                                     *)
(***************************************************************************)
get_header_iter(v, rs, num, data) ==
    IF rs = U32Max
    THEN [k |-> "continue", vec |-> v, ret |-> NoRet]
    ELSE IF rs # Zero
    THEN [k |-> "return", vec |-> v,
          ret |-> RetErr("get_header", HttpErrorKind_from(rs))]
    ELSE IF num > 0
    THEN IF num > BufLen
         THEN [k |-> "panic", vec |-> v, ret |-> RetPanic("get_header")]
         ELSE [k |-> "continue", vec |-> v \o BufSlice(data, num), ret |-> NoRet]
    ELSE [k |-> "return", vec |-> v,
          ret |-> IF Utf8Valid(v) THEN RetOk("get_header", 0, v)
                  ELSE RetErr("get_header", "Utf8Error")]

\* ReadCall with the handle of the lowest live session, as if the handle
\* were shared by all sessions
ReadCall_shared_handle(fn, rs, num) ==
    [fn |-> fn,
     handle |-> sess[CHOOSE t \in Slots :
                        /\ sess[t].st = "live"
                        /\ \A u \in Slots : sess[u].st = "live" => t <= u].inner,
     s |-> cur.s, rs |-> rs, num |-> num, header |-> cur.header]

\* the record of a host read call made on behalf of the call in progress
ReadCall(fn, rs, num) ==
    [fn |-> fn, handle |-> sess[cur.s].inner, s |-> cur.s, rs |-> rs,
     num |-> num, header |-> cur.header]

\* a (0, num) answer that delivers a slice of the buffer
Delivers(rs, num) == rs = Zero /\ num > 0 /\ num <= BufLen

\* the effect of one loop iteration with outcome `out` on the state
LoopEffect(fn, out, rs, num, data) ==
    /\ Delivers(rs, num) => Len(chunks) < MaxChunks
    /\ hostCall' = ReadCall(fn, rs, num)
    /\ chunks' = IF Delivers(rs, num)
                 THEN Append(chunks, BufSlice(data, num)) ELSE chunks
    /\ CASE out.k = "continue" ->
              /\ vec' = out.vec
              /\ UNCHANGED <<pc, cur, ret>>
         [] out.k = "return" ->
              /\ vec' = <<>>
              /\ pc' = "idle"
              /\ cur' = NoCur
              /\ ret' = out.ret
         [] out.k = "panic" ->
              /\ pc' = "panic"
              /\ ret' = out.ret
              /\ UNCHANGED <<vec, cur>>
    /\ UNCHANGED sess

(***************************************************************************)
(* The operations of BlocklessHttp, as changes of the library's state.     *)
(***************************************************************************)
\* open_op with the two out-parameters of http_open taken for each other
open_op_swapped(method, rs, fd, status) ==
    /\ pc = "idle"
    /\ rs = Zero => FreeSlots # {}
    /\ \E build \in Builds :
       LET \* opts: the text passed to the host; method: the method of the
           \* caller's fetch options
           call == [fn |-> "http_open", handle |-> fd, s |-> 0, rs |-> rs,
                    num |-> 0, header |-> "", status |-> status,
                    opts |-> open_http_opts_str[method][build],
                    method |-> method]
       IN  IF rs # Zero
           THEN /\ hostCall' = call
                /\ ret' = RetErr("open", HttpErrorKind_from(rs))
                /\ UNCHANGED sess
           ELSE /\ hostCall' = [call EXCEPT !.s = NextSlot]
                /\ ret' = RetOk("open", NextSlot, <<>>)
                /\ sess' = [sess EXCEPT ![NextSlot] =
                              [st |-> "live", inner |-> status, code |-> fd,
                               closes |-> 0]]
    /\ chunks' = <<>>
    /\ UNCHANGED <<pc, cur, vec>>

open_op(method, rs, fd, status) ==
    /\ pc = "idle"
    /\ rs = Zero => FreeSlots # {}
    /\ \E build \in Builds :
       LET \* opts: the text passed to the host; method: the method of the
           \* caller's fetch options
           call == [fn |-> "http_open", handle |-> fd, s |-> 0, rs |-> rs,
                    num |-> 0, header |-> "", status |-> status,
                    opts |-> open_http_opts_str[method][build],
                    method |-> method]
       IN  IF rs # Zero
           THEN /\ hostCall' = call
                /\ ret' = RetErr("open", HttpErrorKind_from(rs))
                /\ UNCHANGED sess
           ELSE /\ hostCall' = [call EXCEPT !.s = NextSlot]
                /\ ret' = RetOk("open", NextSlot, <<>>)
                /\ sess' = [sess EXCEPT ![NextSlot] =
                              [st |-> "live", inner |-> fd, code |-> status,
                               closes |-> 0]]
    /\ chunks' = <<>>
    /\ UNCHANGED <<pc, cur, vec>>

get_code_op(s) ==
    /\ pc = "idle"
    /\ Live(s)
    /\ ret' = RetOk("get_code", sess[s].code, <<>>)
    /\ hostCall' = NoCall
    /\ chunks' = <<>>
    /\ UNCHANGED <<sess, pc, cur, vec>>

get_all_body_op(s) ==
    /\ pc = "idle"
    /\ Live(s)
    /\ pc' = "get_all_body"
    /\ cur' = [s |-> s, header |-> ""]
    /\ vec' = <<>>
    /\ chunks' = <<>>
    /\ ret' = NoRet
    /\ hostCall' = NoCall
    /\ UNCHANGED sess

get_all_body_loop_op(rs, num, data) ==
    /\ pc = "get_all_body"
    /\ LoopEffect("http_read_body", get_all_body_iter(vec, rs, num, data),
                  rs, num, data)

get_header_op(s, header) ==
    /\ pc = "idle"
    /\ Live(s)
    /\ pc' = "get_header"
    /\ cur' = [s |-> s, header |-> header]
    /\ vec' = <<>>
    /\ chunks' = <<>>
    /\ ret' = NoRet
    /\ hostCall' = NoCall
    /\ UNCHANGED sess

get_header_loop_op(rs, num, data) ==
    /\ pc = "get_header"
    /\ LoopEffect("http_read_header", get_header_iter(vec, rs, num, data),
                  rs, num, data)

\* close_op on a borrowed session: the object stays usable after the call
close_op_not_consuming(s, rs) ==
    /\ pc = "idle"
    /\ Live(s)
    /\ hostCall' = [fn |-> "http_close", handle |-> sess[s].inner, s |-> s,
                    rs |-> rs, num |-> 0, header |-> ""]
    /\ sess' = [sess EXCEPT ![s].closes = @ + 1]
    /\ ret' = RetUnit("close")
    /\ chunks' = <<>>
    /\ UNCHANGED <<pc, cur, vec>>

\* close_op handing the host's code to the caller
close_op_propagating(s, rs) ==
    /\ pc = "idle"
    /\ Live(s)
    /\ hostCall' = [fn |-> "http_close", handle |-> sess[s].inner, s |-> s,
                    rs |-> rs, num |-> 0, header |-> ""]
    /\ sess' = [sess EXCEPT ![s] = [st |-> "closed", inner |-> 0, code |-> 0,
                                    closes |-> @.closes + 1]]
    /\ ret' = IF rs # Zero THEN RetErr("close", HttpErrorKind_from(rs))
              ELSE RetUnit("close")
    /\ chunks' = <<>>
    /\ UNCHANGED <<pc, cur, vec>>

close_op(s, rs) ==
    /\ pc = "idle"
    /\ Live(s)
    /\ hostCall' = [fn |-> "http_close", handle |-> sess[s].inner, s |-> s,
                    rs |-> rs, num |-> 0, header |-> ""]
    /\ sess' = [sess EXCEPT ![s] = [st |-> "closed", inner |-> 0, code |-> 0,
                                    closes |-> @.closes + 1]]
    /\ ret' = RetUnit("close")
    /\ chunks' = <<>>
    /\ UNCHANGED <<pc, cur, vec>>

\* read_body_op that takes the retry sentinel for a success
read_body_op_sentinel_passes(s, rs, num) ==
    /\ pc = "idle"
    /\ Live(s)
    /\ hostCall' = [fn |-> "http_read_body", handle |-> sess[s].inner,
                    s |-> s, rs |-> rs, num |-> num, header |-> ""]
    /\ ret' = IF rs # Zero /\ rs # U32Max
              THEN RetErr("read_body", HttpErrorKind_from(rs))
              ELSE RetOk("read_body", num, <<>>)
    /\ chunks' = <<>>
    /\ UNCHANGED <<sess, pc, cur, vec>>

\* read_body_op that reports an empty read as an error, as a loop's end
read_body_op_empty_fails(s, rs, num) ==
    /\ pc = "idle"
    /\ Live(s)
    /\ hostCall' = [fn |-> "http_read_body", handle |-> sess[s].inner,
                    s |-> s, rs |-> rs, num |-> num, header |-> ""]
    /\ ret' = IF rs # Zero THEN RetErr("read_body", HttpErrorKind_from(rs))
              ELSE IF num = 0 THEN RetErr("read_body", "RuntimeError")
              ELSE RetOk("read_body", num, <<>>)
    /\ chunks' = <<>>
    /\ UNCHANGED <<sess, pc, cur, vec>>

\* read_body: one host call into the caller's buffer (whose contents are the
\* caller's and are not followed here), no loop
read_body_op(s, rs, num) ==
    /\ pc = "idle"
    /\ Live(s)
    /\ hostCall' = [fn |-> "http_read_body", handle |-> sess[s].inner,
                    s |-> s, rs |-> rs, num |-> num, header |-> ""]
    /\ ret' = IF rs # Zero THEN RetErr("read_body", HttpErrorKind_from(rs))
              ELSE RetOk("read_body", num, <<>>)
    /\ chunks' = <<>>
    /\ UNCHANGED <<sess, pc, cur, vec>>

from_op(i) ==
    /\ pc = "idle"
    /\ ret' = [Ret("from", "Kind", HttpErrorKind_from(i), 0, <<>>)
                 EXCEPT !.arg = i]
    /\ hostCall' = NoCall
    /\ chunks' = <<>>
    /\ UNCHANGED <<sess, pc, cur, vec>>

(***************************************************************************)
(* An arbitrary caller: any operation on any session it owns.              *)
(***************************************************************************)
open ==
    /\ mainpc = "off"
    /\ \E method \in Methods, a \in OpenAnswers :
          open_op(method, a.rs, a.fd, a.status)
    /\ UNCHANGED <<mainpc, count>>

get_code ==
    /\ mainpc = "off"
    /\ \E s \in Slots : get_code_op(s)
    /\ UNCHANGED <<mainpc, count>>

get_all_body ==
    /\ mainpc = "off"
    /\ \E s \in Slots : get_all_body_op(s)
    /\ UNCHANGED <<mainpc, count>>

get_all_body_loop ==
    /\ mainpc = "off"
    /\ \E a \in Answers : get_all_body_loop_op(a.rs, a.num, a.data)
    /\ UNCHANGED <<mainpc, count>>

get_header ==
    /\ mainpc = "off"
    /\ \E s \in Slots, header \in HeaderNames : get_header_op(s, header)
    /\ UNCHANGED <<mainpc, count>>

get_header_loop ==
    /\ mainpc = "off"
    /\ \E a \in Answers : get_header_loop_op(a.rs, a.num, a.data)
    /\ UNCHANGED <<mainpc, count>>

close ==
    /\ mainpc = "off"
    /\ \E s \in Slots, rs \in HostCodes : close_op(s, rs)
    /\ UNCHANGED <<mainpc, count>>

read_body ==
    /\ mainpc = "off"
    /\ \E s \in Slots, a \in Answers : read_body_op(s, a.rs, a.num)
    /\ UNCHANGED <<mainpc, count>>

from ==
    /\ mainpc = "off"
    /\ \E i \in CodeSamples : from_op(i)
    /\ UNCHANGED <<mainpc, count>>

Next ==
    \/ open
    \/ get_code
    \/ get_all_body
    \/ get_all_body_loop
    \/ get_header
    \/ get_header_loop
    \/ close
    \/ read_body
    \/ from

Spec == Init /\ [][Next]_vars

(***************************************************************************)
(* A caller that opens one session and streams from it: the read loops     *)
(* against the wider set of host answers.                                  *)
(***************************************************************************)
stream_open ==
    /\ mainpc = "off"
    /\ FreeSlots = Slots
    /\ \E a \in OpenAnswers : open_op(GET, a.rs, a.fd, a.status)
    /\ UNCHANGED <<mainpc, count>>

stream_get_all_body_loop ==
    /\ mainpc = "off"
    /\ \E a \in StreamAnswers : get_all_body_loop_op(a.rs, a.num, a.data)
    /\ UNCHANGED <<mainpc, count>>

stream_get_header_loop ==
    /\ mainpc = "off"
    /\ \E a \in StreamAnswers : get_header_loop_op(a.rs, a.num, a.data)
    /\ UNCHANGED <<mainpc, count>>

StreamNext ==
    \/ stream_open
    \/ get_all_body
    \/ stream_get_all_body_loop
    \/ get_header
    \/ stream_get_header_loop
    \/ close

StreamSpec == Init /\ [][StreamNext]_vars


\* the host answers that end a streaming read: a terminal error code or a
\* zero-count success
Terminal(rs, num) == (rs # Zero /\ rs # U32Max) \/ (rs = Zero /\ num = 0)

body_terminal_answer ==
    /\ mainpc = "off"
    /\ \E a \in StreamAnswers :
          Terminal(a.rs, a.num) /\ get_all_body_loop_op(a.rs, a.num, a.data)
    /\ UNCHANGED <<mainpc, count>>

header_terminal_answer ==
    /\ mainpc = "off"
    /\ \E a \in StreamAnswers :
          Terminal(a.rs, a.num) /\ get_header_loop_op(a.rs, a.num, a.data)
    /\ UNCHANGED <<mainpc, count>>

\* the host, asked again and again, eventually gives a terminal answer
StreamFairSpec ==
    /\ StreamSpec
    /\ WF_vars(body_terminal_answer)
    /\ WF_vars(header_terminal_answer)

(***************************************************************************)
(* A caller that opens one session, streams from it and counts the host    *)
(* read calls of each streaming call.  The host answers with slices that   *)
(* fill the scratch buffer exactly or exceed it, with bytes that are no    *)
(* text on their own, and with code 5.                                     *)
(***************************************************************************)
CountAnswers ==
    [rs : {Zero, Code(4), Code(5), U32Max}, num : {0, 1, 2},
     data : {<<195, 169>>, <<169>>}]
    \cup [rs : {Zero}, num : {BufLen, BufLen + 1}, data : {<<65>>}]

\* one more host read call answered with code rs; the retry sentinels of one
\* streaming call are followed up to MaxRetries
Counted(rs) ==
    /\ rs = U32Max => count.retries < MaxRetries
    /\ count' = [calls |-> count.calls + 1,
                 retries |-> IF rs = U32Max THEN count.retries + 1
                             ELSE count.retries]

count_open ==
    /\ mainpc = "off"
    /\ FreeSlots = Slots
    /\ \E fd \in Handles, status \in Statuses :
          open_op(GET, Zero, fd, status)
    /\ UNCHANGED <<mainpc, count>>

count_get_all_body ==
    /\ mainpc = "off"
    /\ \E s \in Slots : get_all_body_op(s)
    /\ count' = NoCount
    /\ UNCHANGED mainpc

count_get_all_body_loop ==
    /\ mainpc = "off"
    /\ \E a \in CountAnswers :
          /\ get_all_body_loop_op(a.rs, a.num, a.data)
          /\ Counted(a.rs)
    /\ UNCHANGED mainpc

count_get_header ==
    /\ mainpc = "off"
    /\ \E s \in Slots : get_header_op(s, "etag")
    /\ count' = NoCount
    /\ UNCHANGED mainpc

count_get_header_loop ==
    /\ mainpc = "off"
    /\ \E a \in CountAnswers :
          /\ get_header_loop_op(a.rs, a.num, a.data)
          /\ Counted(a.rs)
    /\ UNCHANGED mainpc

CountNext ==
    \/ count_open
    \/ count_get_all_body
    \/ count_get_all_body_loop
    \/ count_get_header
    \/ count_get_header_loop
    \/ close

CountSpec == Init /\ [][CountNext]_vars

(***************************************************************************)
(* A caller that serializes one descriptor: HttpOptions::new, to_json and   *)
(* serde_json::to_string as open applies them, and FetchOptions::new and   *)
(* to_string, for every method text up to MaxMethodLen characters; the     *)
(* text is then read back and the value read is written again.             *)
(***************************************************************************)
\* 'G', a quote, a backslash, a line feed, 'n' and the control character 1
Alphabet == {71, 34, 92, 10, 110, 1}
Texts(n) == UNION {[1..k -> Alphabet] : k \in 0..n}
Timeouts == {0, ReadTimeout, ConnectTimeout}

to_json ==
    /\ mainpc = "off"
    /\ pc = "idle"
    /\ ret = NoRet
    /\ \E method \in Texts(MaxMethodLen), connect_timeout \in Timeouts,
          read_timeout \in Timeouts, build \in Builds :
          LET d == HttpOptions_new(method, connect_timeout, read_timeout)
              text == http_opts_str(d, build)
              back == Value_from_str(text)
              again == IF back.ok
                       THEN Value_to_string(back.obj, KeysOf(build, back.keys))
                       ELSE <<>>
          IN  ret' = [Ret("to_json", "Ok", "", 0, text) EXCEPT
                         !.arg = [d |-> d, back |-> back, again |-> again]]
    /\ hostCall' = NoCall
    /\ UNCHANGED <<sess, pc, cur, vec, chunks, mainpc, count>>

to_string ==
    /\ mainpc = "off"
    /\ pc = "idle"
    /\ ret = NoRet
    /\ \E method \in Texts(MaxMethodLen) :
          LET d == FetchOptions_new(method)
              text == FetchOptions_to_string(d)
              back == FetchOptions_from_str(text)
              again == IF back.ok THEN FetchOptions_to_string(back.v)
                       ELSE <<>>
          IN  ret' = [Ret("to_string", "Ok", "", 0, text) EXCEPT
                         !.arg = [d |-> d, back |-> back, again |-> again]]
    /\ hostCall' = NoCall
    /\ UNCHANGED <<sess, pc, cur, vec, chunks, mainpc, count>>

EncodeNext ==
    \/ to_json
    \/ to_string

EncodeSpec == Init /\ [][EncodeNext]_vars

(***************************************************************************)
(* main(): open(..).unwrap(), get_all_body().unwrap() decoded with         *)
(* String::from_utf8(..).unwrap(), close(), then the report of the body.   *)
(***************************************************************************)
main_open ==
    /\ mainpc = "open"
    /\ \E a \in OpenAnswers : open_op(GET, a.rs, a.fd, a.status)
    /\ mainpc' = IF ret'.tag = "Ok" THEN "get_all_body" ELSE "panic"
    /\ UNCHANGED count

main_get_all_body ==
    /\ mainpc = "get_all_body"
    /\ \E s \in Slots : get_all_body_op(s)
    /\ UNCHANGED <<mainpc, count>>

main_get_all_body_loop ==
    /\ mainpc = "get_all_body"
    /\ \E a \in StreamAnswers : get_all_body_loop_op(a.rs, a.num, a.data)
    /\ mainpc' = IF pc' = "get_all_body" THEN mainpc
                 ELSE IF ret'.tag = "Ok" /\ Utf8Valid(ret'.bytes) THEN "close"
                 ELSE "panic"
    /\ UNCHANGED count

main_close ==
    /\ mainpc = "close"
    /\ \E s \in Slots, rs \in HostCodes : close_op(s, rs)
    /\ mainpc' = "report"
    /\ UNCHANGED count

main_report ==
    /\ mainpc = "report"
    /\ mainpc' = "done"
    /\ UNCHANGED <<libvars, count>>

MainInit ==
    /\ InitLib
    /\ mainpc = "open"
    /\ count = NoCount

MainNext ==
    \/ main_open
    \/ main_get_all_body
    \/ main_get_all_body_loop
    \/ main_close
    \/ main_report

MainSpec == MainInit /\ [][MainNext]_vars


(***************************************************************************)
(* Properties.                                                             *)
(***************************************************************************)
RECURSIVE Flatten(_)
Flatten(cs) == IF cs = <<>> THEN <<>> ELSE Head(cs) \o Flatten(Tail(cs))

InLoop == pc \in {"get_all_body", "get_header"}
ReadFns == {"http_read_body", "http_read_header"}
\* the last step was an iteration of get_all_body's loop
BodyIteration == hostCall.fn = "http_read_body" /\ ret.op # "read_body"
\* the last step was an iteration of one of the two read loops
LoopIteration == hostCall.fn \in ReadFns /\ ret.op # "read_body"

\* C1: get_all_body starts from an empty accumulator and, when the host's
\* answers reach a (code 0, count 0) answer with no terminal error before it,
\* returns Ok with exactly the concatenation, in arrival order, of the first
\* `count` bytes of the buffer of each (code 0, count > 0) answer before it.
C1_BodyIsConcatenation ==
    /\ pc = "get_all_body" => vec = Flatten(chunks)
    /\ (BodyIteration /\ hostCall.rs = Zero /\ hostCall.num = 0) =>
          /\ pc = "idle"
          /\ ret = RetOk("get_all_body", 0, Flatten(chunks))
    /\ (ret.op = "get_all_body" /\ ret.tag = "Ok") =>
          /\ ret.bytes = Flatten(chunks)
          /\ hostCall.rs = Zero /\ hostCall.num = 0

\* a body of two chunks: 1 byte of a 2-byte write, then 2 bytes of which the
\* host wrote only the first
C1_Witness ==
    /\ ret.op = "get_all_body" /\ ret.tag = "Ok"
    /\ chunks = << <<195>>, <<65, 0>> >>
    /\ ret.bytes = <<195, 65, 0>>

\* C2: in the loops of get_all_body and get_header an answer with the retry
\* sentinel, whatever count and bytes came with it, changes nothing but the
\* record of the host call: the accumulator is unchanged, nothing is
\* returned and the call stays in its loop to call the host again.
C2_RetryIsTransparent ==
    [][(InLoop /\ hostCall'.rs = U32Max) =>
          /\ vec' = vec
          /\ pc' = pc
          /\ cur' = cur
          /\ ret' = NoRet
          /\ chunks' = chunks
          /\ sess' = sess
          /\ hostCall'.fn = (IF pc = "get_header" THEN "http_read_header"
                             ELSE "http_read_body")]_vars

\* a retry answered with an oversized count after a chunk was accumulated
C2_Witness ==
    /\ pc = "get_header"
    /\ hostCall.rs = U32Max /\ hostCall.num = BufLen + 1
    /\ vec = <<195, 169>>

\* C3: in get_all_body and get_header the first answer whose code is neither
\* 0 nor the retry sentinel ends the call: the thread is out of the loop, the
\* result is Err with the kind mapped from that code, and the bytes
\* accumulated so far are in no part of the result.
C3_TerminalErrorEndsCall ==
    (LoopIteration /\ hostCall.rs # Zero /\ hostCall.rs # U32Max) =>
        /\ pc = "idle"
        /\ cur = NoCur
        /\ vec = <<>>
        /\ ret.op \in {"get_all_body", "get_header"}
        /\ ret = RetErr(ret.op, HttpErrorKind_from(hostCall.rs))

\* header-not-found (4) after two chunks were accumulated
C3_Witness ==
    /\ ret.op = "get_all_body" /\ ret.tag = "Err"
    /\ hostCall.rs = Code(4)
    /\ Len(chunks) = 2

\* C4: a call of get_all_body or get_header returns in exactly the iteration
\* in which the host gives a terminal error code or a (code 0, count 0)
\* answer, and in no other (after a retry or a chunk it is still in the
\* loop; an oversized count aborts it); so, if the host eventually gives such
\* an answer, the call eventually leaves the loop.
C4_ReturnsIffTerminalAnswer ==
    /\ [][InLoop =>
            /\ (pc' = "idle") <=> Terminal(hostCall'.rs, hostCall'.num)
            /\ (pc' = "panic") <=>
                  (hostCall'.rs = Zero /\ hostCall'.num > BufLen)
            /\ pc' \in {pc, "idle", "panic"}]_vars
    /\ (InLoop ~> ~InLoop)

\* get_header returned on the unrecognised code 255 after a retry-free run
\* of two chunks
C4_Witness ==
    /\ pc = "idle"
    /\ ret.op = "get_header"
    /\ hostCall.rs = Code(255)
    /\ Len(chunks) = 2


\* C5: open makes one http_open call; on code 0 it yields a new session whose
\* handle and status are the ones the host stored, on any other code it
\* yields Err with the kind mapped from the code and no session comes to
\* exist, so no read or close can follow for that open.
C5_OpenResult ==
    [][ret'.op = "open" =>
          /\ hostCall'.fn = "http_open"
          /\ pc' = "idle"
          /\ IF hostCall'.rs = Zero
             THEN /\ ret'.tag = "Ok"
                  /\ sess[ret'.n].st = "none"
                  /\ sess' = [sess EXCEPT ![ret'.n] =
                                [st |-> "live", inner |-> hostCall'.handle,
                                 code |-> hostCall'.status, closes |-> 0]]
             ELSE /\ ret' = RetErr("open", HttpErrorKind_from(hostCall'.rs))
                  /\ sess' = sess]_vars

\* a second session opened while the first is live, with the other handle
\* and status
C5_Witness ==
    /\ ret.op = "open" /\ ret.tag = "Ok" /\ ret.n = 2
    /\ sess[1] = [st |-> "live", inner |-> 0, code |-> 200, closes |-> 0]
    /\ sess[2] = [st |-> "live", inner |-> 7, code |-> 404, closes |-> 0]

\* C6: every host read call is made for a session that was opened and is not
\* closed, with that session's handle; a close call is made for a live
\* session, which it consumes, so no session is closed twice and none is
\* read after its close.
C6_HandleOnlyWhileOpen ==
    /\ \A s \in Slots :
          /\ sess[s].closes <= 1
          /\ sess[s].closes = 1 <=> sess[s].st = "closed"
    /\ hostCall.fn \in ReadFns =>
          /\ hostCall.s \in Slots
          /\ sess[hostCall.s].st = "live"
          /\ hostCall.handle = sess[hostCall.s].inner
    /\ hostCall.fn = "http_close" =>
          /\ hostCall.s \in Slots
          /\ sess[hostCall.s].st = "closed"
    /\ InLoop => cur.s \in Slots /\ sess[cur.s].st = "live"

\* a header read on the second session after the first was closed
C6_Witness ==
    /\ sess[1].st = "closed"
    /\ hostCall.fn = "http_read_header"
    /\ hostCall.s = 2

\* C7: when main() ends, by returning or on a failed result, every session
\* it opened has been closed exactly once (the abort of the read loop on an
\* oversized count, which ends main() too, is left aside here).
C7_ClosedOnEveryExit ==
    (mainpc \in {"done", "panic"} /\ ret.tag # "Panic") =>
        \A s \in Slots :
            sess[s].st # "none" => sess[s].st = "closed" /\ sess[s].closes = 1

\* C8: close makes one http_close call with the session's handle and returns
\* unit for every code the host returns; the session is closed once and the
\* call is not repeated.
C8_CloseNeverFails ==
    [][ret'.op = "close" =>
          \E s \in Slots :
              /\ sess[s].st = "live"
              /\ hostCall'.fn = "http_close"
              /\ hostCall'.s = s
              /\ hostCall'.handle = sess[s].inner
              /\ ret' = RetUnit("close")
              /\ pc' = "idle"
              /\ sess'[s].st = "closed"
              /\ sess'[s].closes = 1
              /\ \A t \in Slots \ {s} : sess'[t] = sess[t]]_vars

\* close answered with the retry sentinel
C8_Witness ==
    /\ ret.op = "close"
    /\ hostCall.fn = "http_close"
    /\ hostCall.rs = U32Max

Recognised == {Code(n) : n \in 1..13}

\* C9: the conversion is total: it yields a kind for every code, and
\* RuntimeError for every code outside 1..13 (0 and u32::MAX included),
\* whether it is applied directly or to the code of a failed host call.
C9_UnrecognisedIsRuntimeError ==
    /\ ret.op = "from" =>
          /\ ret.tag = "Kind"
          /\ ret.kind \in HttpErrorKind
          /\ pc = "idle"
          /\ ret.arg \notin Recognised => ret.kind = "RuntimeError"
    /\ (ret.tag = "Err" /\ hostCall.rs # Zero /\ hostCall.rs \notin Recognised)
          => ret.kind = "RuntimeError"

\* the conversion applied to 65537, whose low half is a recognised code
C9_Witness ==
    /\ ret.op = "from"
    /\ ret.arg = U32(1, 1)
    /\ ret.kind = "RuntimeError"

\* C10 (as claimed): distinct recognised codes yield distinct kinds, and
\* every one of the 14 kinds, InvalidDriver included, is the image of some
\* non-zero, non-sentinel host code.
C10_EveryKindIsAnImage ==
    ret.op = "from" =>
        /\ \A c, d \in Recognised :
              c # d => HttpErrorKind_from(c) # HttpErrorKind_from(d)
        /\ \A k \in HttpErrorKind :
              \E c \in CodeSamples \ {Zero, U32Max} : HttpErrorKind_from(c) = k

\* C10 (amended): the codes 1..13 yield 13 distinct kinds, which are all the
\* kinds but InvalidDriver; InvalidDriver is the image of no code; a code
\* outside 1..13 shares RuntimeError with code 11.
C10_OneToOneOnRecognised ==
    ret.op = "from" =>
        /\ ret.kind # "InvalidDriver"
        /\ ret.arg \in Recognised =>
              \A d \in Recognised \ {ret.arg} : HttpErrorKind_from(d) # ret.kind
        /\ ret.arg \notin Recognised => ret.kind = HttpErrorKind_from(Code(11))
        /\ \A k \in HttpErrorKind \ {"InvalidDriver"} :
              \E c \in Recognised : HttpErrorKind_from(c) = k
        /\ \A c \in CodeSamples : HttpErrorKind_from(c) # "InvalidDriver"

\* the conversion applied to 5, the code of the kind Utf8Error
C10_Witness ==
    /\ ret.op = "from"
    /\ ret.arg = Code(5)
    /\ ret.kind = "Utf8Error"

\* C11: get_header answers Err(HeaderNotFound) as soon as the host returns
\* code 4, also after retries and after delivered chunks, and never reports
\* the missing header as Ok(""): Ok("") is returned only when the first
\* answer that is not a retry sentinel is (code 0, count 0).
C11_MissingHeaderIsAnError ==
    /\ (hostCall.fn = "http_read_header" /\ hostCall.rs = Code(4))
          => /\ ret = RetErr("get_header", "HeaderNotFound")
             /\ pc = "idle"
    /\ (ret.op = "get_header" /\ ret.tag = "Ok" /\ ret.bytes = <<>>)
          => /\ hostCall.fn = "http_read_header"
             /\ hostCall.rs = Zero
             /\ hostCall.num = 0
             /\ chunks = <<>>
             /\ count.calls = count.retries + 1

C11_Witness ==
    /\ ret = RetErr("get_header", "HeaderNotFound")
    /\ count.retries > 0
    /\ Len(chunks) > 0

\* C12 as stated: the text-decode kind reaches the caller of get_header only
\* from the local decoding step, so the host has completed the read with a
\* zero-count success whenever the caller receives it.
C12_DecodeKindOnlyLocal ==
    (ret.op = "get_header" /\ ret.tag = "Err" /\ ret.kind = "Utf8Error")
        => hostCall.rs = Zero /\ hostCall.num = 0

\* C12, amended: when the loop of get_header ends on a zero-count success
\* the result is Ok(text) if the accumulated bytes are valid text and
\* Err(Utf8Error) otherwise; Utf8Error reaches the caller of get_header
\* from that decoding step or from host code 5, and the caller of
\* get_all_body from host code 5 only.
C12_DecodeAtLoopEnd ==
    /\ (ret.op = "get_header" /\ hostCall.rs = Zero /\ hostCall.num = 0)
          => /\ ret = IF Utf8Valid(Flatten(chunks))
                      THEN RetOk("get_header", 0, Flatten(chunks))
                      ELSE RetErr("get_header", "Utf8Error")
             /\ chunks = << <<195>>, <<169>> >> => ret.tag = "Ok"
             /\ chunks = << <<195, 169>> >> => ret.tag = "Ok"
             /\ chunks = << <<169>> >> => ret.tag = "Err"
             /\ chunks = << <<195>> >> => ret.tag = "Err"
    /\ (ret.op = "get_header" /\ ret.tag = "Err" /\ ret.kind = "Utf8Error")
          => \/ /\ hostCall.rs = Zero
                /\ hostCall.num = 0
                /\ ~Utf8Valid(Flatten(chunks))
             \/ hostCall.rs = Code(5)
    /\ (ret.op = "get_all_body" /\ ret.tag = "Err" /\ ret.kind = "Utf8Error")
          => hostCall.rs = Code(5)
    /\ HttpErrorKind_from(Code(5)) = "Utf8Error"

C12_Witness ==
    /\ ret = RetErr("get_header", "Utf8Error")
    /\ hostCall.rs = Zero
    /\ hostCall.num = 0
    /\ chunks = << <<195>> >>
    /\ count.retries > 0

\* C13 as stated: the sentinel u32::MAX always means retry: no operation
\* that calls the host (open, get_all_body, get_header, read_body) reports
\* a host answer of u32::MAX to its caller as an error.
C13_SentinelNeverAnError ==
    (hostCall.fn \in {"http_open"} \cup ReadFns /\ hostCall.rs = U32Max)
        => ret.tag # "Err"

\* C13, amended: u32::MAX means retry inside the loops of get_all_body and
\* get_header only, where the call goes on without a result; open and
\* read_body, which call the host once, report it as Err(RuntimeError).
C13_SentinelRetriesInLoopsOnly ==
    hostCall.rs = U32Max =>
        /\ LoopIteration => /\ InLoop
                            /\ ret = NoRet
                            /\ cur.s = hostCall.s
        /\ hostCall.fn = "http_open" => ret = RetErr("open", "RuntimeError")
        /\ (hostCall.fn = "http_read_body" /\ ret.op = "read_body")
              => ret = RetErr("read_body", "RuntimeError")

C13_Witness ==
    /\ hostCall.fn = "http_read_body"
    /\ hostCall.rs = U32Max
    /\ ret = RetErr("read_body", "RuntimeError")

\* C14: read_body makes exactly one host read-body call per invocation, with
\* no loop and no retry: it returns Ok(count) if and only if the host code
\* is 0 (a count of 0 included), and the Error Kind mapped from the code
\* otherwise, and the call is over after that one host call.
C14_ReadBodyIsOneCall ==
    [][ret'.op = "read_body" =>
          /\ pc = "idle"
          /\ pc' = "idle"
          /\ hostCall'.fn = "http_read_body"
          /\ Live(hostCall'.s)
          /\ sess' = sess
          /\ vec' = vec
          /\ ret' = IF hostCall'.rs = Zero
                    THEN RetOk("read_body", hostCall'.num, <<>>)
                    ELSE RetErr("read_body", HttpErrorKind_from(hostCall'.rs))
          /\ (ret'.tag = "Ok") = (hostCall'.rs = Zero)]_vars

C14_Witness ==
    /\ hostCall.fn = "http_read_body"
    /\ hostCall.rs = Zero
    /\ hostCall.num = 0
    /\ ret = RetOk("read_body", 0, <<>>)

\* C15: the number of host read calls made by one get_all_body / get_header
\* invocation is the 1-based position of the first host answer that is
\* (0, 0) or a terminal error: every retry and every delivered chunk is
\* followed by one more call, the terminal answer by none; two chunks and
\* a (0, 0) take 3 calls, N retries and a terminal error take N + 1 calls
\* and return no byte.
C15_CallsUpToFirstTerminal ==
    /\ InLoop =>
          /\ count.calls = count.retries + Len(chunks)
          /\ count.calls > 0 => /\ hostCall.fn \in ReadFns
                                /\ ~Terminal(hostCall.rs, hostCall.num)
    /\ (pc = "idle" /\ ret.op \in {"get_all_body", "get_header"}) =>
          /\ hostCall.fn \in ReadFns
          /\ Terminal(hostCall.rs, hostCall.num)
          /\ count.calls = count.retries + Len(chunks) + 1
          /\ (chunks = <<>> /\ hostCall.rs # Zero) =>
                /\ ret.tag = "Err"
                /\ ret.bytes = <<>>
                /\ count.calls = count.retries + 1
          /\ (count.retries = 0 /\ Len(chunks) = 2 /\ hostCall.rs = Zero) =>
                count.calls = 3

C15_Witness ==
    /\ pc = "idle"
    /\ ret.op = "get_all_body"
    /\ ret.tag = "Err"
    /\ chunks = <<>>
    /\ count.retries = MaxRetries
    /\ count.calls = MaxRetries + 1

\* C19: no iteration of get_all_body / get_header appends more than the
\* length of the scratch buffer (1024 bytes), and a host answer of code 0
\* with a count above 1024 aborts the call (the slice's bounds check
\* panics) with nothing appended, instead of returning Ok or Err; nothing
\* else aborts it.
C19_NoAppendBeyondBuffer ==
    [][InLoop =>
          /\ Len(vec') <= Len(vec) + 1024
          /\ (pc' = pc /\ hostCall'.rs = Zero) =>
                /\ hostCall'.num \in 1..1024
                /\ Len(vec') = Len(vec) + hostCall'.num
          /\ (hostCall'.rs = Zero /\ hostCall'.num > 1024) =>
                /\ pc' = "panic"
                /\ ret' = RetPanic(pc)
                /\ vec' = vec
          /\ pc' = "panic" => hostCall'.rs = Zero /\ hostCall'.num > 1024
      ]_vars

C19_Witness ==
    /\ pc = "panic"
    /\ ret = RetPanic("get_all_body")
    /\ hostCall.num = 1025
    /\ Len(chunks) = 1
    /\ Len(chunks[1]) = 1024
    /\ vec = chunks[1]

\* C18: the handle and the status of a session are fixed at open (they are
\* what the host returned to that open) and unchanged by every later
\* operation; get_code makes no host call and returns the session's status
\* whatever reads came before; every host read or close call passes the
\* handle of the session it is made for, also when several sessions
\* coexist.
C18_HandleAndStatusFixed ==
    [][/\ \A s \in Slots :
             /\ (sess[s].st = "live" /\ sess'[s].st = "live")
                   => /\ sess'[s].inner = sess[s].inner
                      /\ sess'[s].code = sess[s].code
             /\ (sess[s].st # "live" /\ sess'[s].st = "live")
                   => /\ hostCall'.fn = "http_open"
                      /\ hostCall'.rs = Zero
                      /\ hostCall'.s = s
                      /\ sess'[s].inner = hostCall'.handle
                      /\ sess'[s].code = hostCall'.status
             /\ (hostCall'.fn \in ReadFns \cup {"http_close"}
                   /\ hostCall'.s = s)
                   => /\ sess[s].st = "live"
                      /\ hostCall'.handle = sess[s].inner
       /\ ret'.op = "get_code"
             => /\ hostCall' = NoCall
                /\ sess' = sess
                /\ \E s \in Slots :
                      /\ sess[s].st = "live"
                      /\ ret' = RetOk("get_code", sess[s].code, <<>>)
      ]_vars

C18_Witness ==
    /\ sess[1].st = "live"
    /\ sess[2].st = "live"
    /\ sess[1].inner # sess[2].inner
    /\ sess[1].code = 200
    /\ sess[2].code = 404
    /\ hostCall.fn = "http_read_header"
    /\ hostCall.s = 2
    /\ hostCall.handle = sess[2].inner
    /\ hostCall.rs = Code(4)

\* C16: for every method given to open, the text passed to the host reads
\* back as a descriptor with that method unchanged, connectTimeout 30,
\* readTimeout 10, a null body and the fixed "{}" headers placeholder, and
\* nothing else: the caller's input changes the method only.
C16_DescriptorIsFixed ==
    hostCall.fn = "http_open" =>
        LET d == Value_from_str(hostCall.opts)
        IN  /\ d.ok
            /\ DOMAIN d.obj = {"method", "connectTimeout", "readTimeout",
                               "headers", "body"}
            /\ d.obj["method"] = [t |-> "string", s |-> hostCall.method]
            /\ d.obj["connectTimeout"] = [t |-> "number", n |-> 30]
            /\ d.obj["readTimeout"] = [t |-> "number", n |-> 10]
            /\ d.obj["headers"] = [t |-> "string", s |-> <<123, 125>>]
            /\ d.obj["body"] = [t |-> "null"]

C16_Witness ==
    /\ hostCall.fn = "http_open"
    /\ hostCall.method = <<34, 92, 10>>
    /\ hostCall.opts =
          <<123, 34, 98, 111, 100, 121, 34, 58, 110, 117, 108, 108, 44,
            34, 99, 111, 110, 110, 101, 99, 116, 84, 105, 109, 101, 111, 117,
            116, 34, 58, 51, 48, 44,
            34, 104, 101, 97, 100, 101, 114, 115, 34, 58, 34, 123, 125, 34, 44,
            34, 109, 101, 116, 104, 111, 100, 34, 58,
            34, 92, 34, 92, 92, 92, 110, 34, 44,
            34, 114, 101, 97, 100, 84, 105, 109, 101, 111, 117, 116, 34, 58,
            49, 48, 125>>

\* C17: serialization of a request descriptor is stable: for every
\* descriptor d the text encode(d) can be read back, and writing the value
\* read gives the same text again: encode(decode(encode(d))) = encode(d).
C17_SerializationIsStable ==
    ret.op \in {"to_json", "to_string"} =>
        /\ ret.arg.back.ok
        /\ ret.arg.again = ret.bytes

C17_Witness ==
    /\ ret.op = "to_json"
    /\ ret.arg.d.method = <<34, 10>>
    /\ ret.arg.d.read_timeout = 0
    /\ ret.arg.back.keys = InsertedKeys
    /\ ret.arg.back.obj["method"] = JStr(<<34, 10>>)
    /\ ret.arg.again = ret.bytes

====
